---- MODULE Spec2Model ----
(***************************************************************************)
(* The file transport's rotation engine and the background task queue of   *)
(* the logger package.                                                     *)
(*                                                                         *)
(* One FileTransport instance shares the process-wide BackgroundQueue.     *)
(* JavaScript runs one synchronous segment at a time: an action of this    *)
(* module is one such segment (a log() call, the part of an async function *)
(* between two awaits, one turn of the drain loop).  A call of an async    *)
(* function runs its first segment inside the caller's segment, which is   *)
(* why enqueue on an idle queue already executes the head of the task.     *)
(***************************************************************************)
EXTENDS Integers, Sequences, FiniteSets, TLC

\* ---------------------------------------------------------------- bounds
MaxEntries == 4        \* log() calls per behaviour
MaxPre == 2            \* rotated generations found on disk at construction
MaxMaxFiles == 2       \* largest cleanup.maxFiles drawn
MaxFileSize == 1       \* the maxFileSize option
MaxFaults == 1         \* failing filesystem operations (SpecFault)
MaxTasks == 1002       \* enqueue calls of plain tasks (SpecQ)
MaxSettles == 3        \* plain tasks that settle (SpecQ)

\* the inputs of log(): Buffer.byteLength of the formatted entry, and its
\* timestamp, counted in half days of UTC (3 is late on day 1, 4 early and 5
\* late on day 2)
EntryLens == {1, 2}
Timestamps == {3, 4, 5}

\* ------------------------------------------------------ program constants
MAX_QUEUE_SIZE == 1000
BACKGROUND_QUEUE_DELAY == 0

\* the length of a calendar day, in the unit of the timestamps
DAY_IN_MS == 2

\* toDateString: the UTC calendar day of a Date (toISOString().split("T")[0]);
\* toLocalDateString is the day on a clock half a day ahead of UTC
toLocalDateString(date) == (date + 1) \div DAY_IN_MS
toDateString(date) == date \div DAY_IN_MS

VARIABLES
    options,           \* rotation, maxFileSize, compress, maxFiles (readonly fields),
                       \* pre: the generations on disk at construction, and
                       \* faulty: the calls that may fail ("fs", "log", "none")
    files,             \* the directory: path -> content, for the paths that exist
    streams,           \* every write stream created: [path, ended]
    stream,            \* FileTransport.stream (index into streams, 0 = undefined)
    currentFileSize,   \* FileTransport.currentFileSize
    currentDate,       \* FileTransport.currentDate (0 = "")
    currentStream,     \* FileTransport.currentStream (index, 0 = undefined)
    isClosed,          \* FileTransport.isClosed
    queue,             \* BackgroundQueue.queue
    processing,        \* BackgroundQueue.processing
    active,            \* drain loops suspended at an await: [task, st, path, src]
    nEnq,              \* history: enqueue calls so far (task ids)
    started,           \* history: ids of the tasks called, in call order
    dropped,           \* history: ids shifted out by the overflow branch
    nSettled,          \* history: plain tasks settled
    nFailed,           \* history: plain tasks that rejected
    loopAborted,       \* history: an exception escaped processQueue
    hist,              \* history: one record per log() call
    purged,            \* history: entries of the files the overflow branch deletes
    nRot,              \* history: size rotations that reached the new stream
    faults,            \* calls that may still fail or throw
    waiter,            \* the promise of a waitForCompletion() call
    swept,             \* history: entries of the files a retention sweep deleted
    justSwept,         \* history: the last step was a retention sweep
    justClosed,        \* history: the last step was a close() call
    logLevel,          \* Logger.logLevel
    transports,        \* Logger.transports, in registration order
    dispatch           \* history: the last Logger.debug/info/warn/error call

qvars == <<queue, processing, active, nEnq, started, dropped, nSettled, nFailed, loopAborted,
           waiter>>
tvars == <<options, files, streams, stream, currentFileSize, currentDate, currentStream,
           isClosed, hist, purged, nRot, faults, swept>>
vars == <<options, files, streams, stream, currentFileSize, currentDate, currentStream,
          isClosed, queue, processing, active, nEnq, started, dropped, nSettled, nFailed,
          loopAborted, hist, purged, nRot, faults, waiter, swept, justSwept, justClosed,
          logLevel, transports, dispatch>>
lvars == <<logLevel, transports, dispatch>>

Range(s) == {s[i] : i \in 1..Len(s)}

\* ------------------------------------------------------------ paths, files
\* A path is [d, n, z]: d = 0 for the size-mode log {filePath}, d >= 1 for the
\* date bucket of that day, d = -1 for the log of another transport in the
\* same directory (other.log); n the numeric suffix (0 = none); z the number
\* of ".gz" suffixes.
LivePath == [d |-> 0, n |-> 0, z |-> 0]

\* `${filePath}.gz`
GzPath(p) == [p EXCEPT !.z = @ + 1]

\* a chunk of a file: an entry written raw, or one gzip member holding entries
Raw(e) == [gz |-> FALSE, ents |-> <<e>>]

RECURSIVE Flatten(_)
Flatten(c) == IF c = <<>> THEN <<>> ELSE Head(c).ents \o Flatten(Tail(c))

Gzip(c) == [gz |-> TRUE, ents |-> Flatten(c)]

EntriesOf(c) == Range(Flatten(c))

AllEntries(fs) == UNION {EntriesOf(fs[p]) : p \in DOMAIN fs}

exists(fs, p) == p \in DOMAIN fs

Remove(fs, p) == [x \in DOMAIN fs \ {p} |-> fs[x]]

Put(fs, p, c) == [x \in DOMAIN fs \cup {p} |-> IF x = p THEN c ELSE fs[x]]

\* deleteFile: true when absent, unlink otherwise; a failure returns false
deleteFile(fs, p, fail) == IF fail \/ ~exists(fs, p) THEN fs ELSE Remove(fs, p)

\* moveFile: false when oldPath is absent or renameSync throws; renameSync
\* replaces whatever is at newPath
moveFile(fs, oldPath, newPath, fail) ==
    IF fail \/ ~exists(fs, oldPath) THEN fs
    ELSE Put(Remove(fs, oldPath), newPath, fs[oldPath])

\* createWriteStream(path, {flags: "a"}): the open creates the file if absent
OpenFile(fs, p) == IF exists(fs, p) THEN fs ELSE Put(fs, p, <<>>)

\* ------------------------------------------------------- BackgroundQueue
Task(id, kind, timestamp) == [id |-> id, kind |-> kind, timestamp |-> timestamp]

\* enqueue, lines 13-16: the overflow branch
OverflowLoose(q) == IF Len(q) > MAX_QUEUE_SIZE THEN Tail(q) ELSE q
Overflow(q) == IF Len(q) >= MAX_QUEUE_SIZE THEN Tail(q) ELSE q

\* processQueue, line 26: the reentrancy guard
ProcessQueueReturnsNoGuard(proc, q) == Len(q) = 0
ProcessQueueReturns(proc, q) == proc \/ Len(q) = 0

\* processQueue, lines 35-40: try/catch around `await task()`
LoopContinuesNoCatch(st) == st # "failed"
LoopContinues(st) == TRUE

\* ------------------------------------------- the state the operators act on
\* The queue's fields (with their history) and the transport's fields (with
\* the directory), as records, so that one segment can be composed of calls.
Q == [queue |-> queue, processing |-> processing, active |-> active,
      started |-> started, dropped |-> dropped]

W == [files |-> files, streams |-> streams, stream |-> stream,
      currentFileSize |-> currentFileSize, currentDate |-> currentDate,
      currentStream |-> currentStream, purged |-> purged, nRot |-> nRot,
      faults |-> faults, swept |-> swept]

SetQ(q) ==
    /\ queue' = q.queue
    /\ processing' = q.processing
    /\ active' = q.active
    /\ started' = q.started
    /\ dropped' = q.dropped

SetW(w) ==
    /\ files' = w.files
    /\ streams' = w.streams
    /\ stream' = w.stream
    /\ currentFileSize' = w.currentFileSize
    /\ currentDate' = w.currentDate
    /\ currentStream' = w.currentStream
    /\ purged' = w.purged
    /\ nRot' = w.nRot
    /\ faults' = w.faults
    /\ swept' = w.swept

\* stream.end(): the stream accepts no further write
EndStream(ss, i) == [ss EXCEPT ![i].ended = TRUE]

\* createWriteStream(path): a new stream object, and the file it opens; lost
\* becomes true when the file is unlinked under the open stream
NewStream(ss, p) == Append(ss, [path |-> p, ended |-> FALSE, lost |-> FALSE])

\* rotateSizeBasedFile, lines 247-253: up to the await of stream.end()
RotateSizeHead(w) ==
    IF w.stream = 0 THEN [w |-> w, st |-> "settled", path |-> LivePath, src |-> <<>>]
    ELSE [w |-> [w EXCEPT !.streams = EndStream(@, w.stream)],
          st |-> "ending", path |-> LivePath, src |-> <<>>]

\* ------------------------------------------------- FileTransport, size mode
\* getRotatedFilePath, lines 414-417: `${filePath}.${number}${extension}`
getRotatedFilePath(number) ==
    [d |-> 0, n |-> number, z |-> IF options.compress THEN 1 ELSE 0]

\* extractFileNumber, lines 405-412: the name starts with the base name and
\* FILE_NUMBER_REGEX /\.(\d+)(\.gz)?$/ matches; 0 stands for null
extractFileNumber(p) ==
    IF p.d = 0 /\ p.n >= 1 /\ p.z <= 1 THEN p.n ELSE 0

\* lines 260-263: the numbers of the listed files, one per file, sorted
RECURSIVE SortAsc(_)
SortAsc(P) ==
    IF P = {} THEN <<>>
    ELSE LET p == CHOOSE x \in P : \A y \in P : x.n <= y.n
         IN <<p.n>> \o SortAsc(P \ {p})

RECURSIVE SortDesc(_)
SortDesc(P) ==
    IF P = {} THEN <<>>
    ELSE LET p == CHOOSE x \in P : \A y \in P : x.n >= y.n
         IN <<p.n>> \o SortDesc(P \ {p})

existingNumbersAsc(fs) == SortAsc({p \in DOMAIN fs : extractFileNumber(p) # 0})
existingNumbers(fs) == SortDesc({p \in DOMAIN fs : extractFileNumber(p) # 0})

\* line 270: `this.maxFiles && num + 1 > this.maxFiles`
OverMaxFilesLate(num) == options.maxFiles # 0 /\ num > options.maxFiles
OverMaxFiles(num) == options.maxFiles # 0 /\ num + 1 > options.maxFiles

\* lines 266-277: the shift loop; F holds the positions whose filesystem call fails
RECURSIVE ShiftLoop(_, _, _, _, _)
ShiftLoop(nums, i, fs, pg, F) ==
    IF i > Len(nums) THEN [files |-> fs, purged |-> pg]
    ELSE LET num == nums[i]
             oldPath == getRotatedFilePath(num)
             newPath == getRotatedFilePath(num + 1)
             fail == i \in F
         IN IF OverMaxFiles(num)
            THEN ShiftLoop(nums, i + 1, deleteFile(fs, oldPath, fail),
                           IF ~exists(fs, oldPath) THEN pg
                           ELSE pg \cup EntriesOf(fs[oldPath]), F)
            ELSE ShiftLoop(nums, i + 1, moveFile(fs, oldPath, newPath, fail), pg, F)

\* lines 290-294: the new live stream, and the size counter reset
RotateSizeTail(w) ==
    [w EXCEPT !.streams = NewStream(@, LivePath),
              !.stream = Len(w.streams) + 1,
              !.files = OpenFile(@, LivePath),
              !.currentFileSize = 0,
              !.nRot = @ + 1]

\* compressFile, lines 365-375: up to the pipe; false when the file is absent.
\* src is what the read stream reads: the rotated file's content, which no
\* stream writes to any more
CompressHead(fs, p) ==
    IF exists(fs, p)
    THEN [files |-> OpenFile(fs, GzPath(p)), st |-> "compressing", src |-> fs[p]]
    ELSE [files |-> fs, st |-> "nocompress", src |-> <<>>]

\* a write to `${filePath}.gz` through the stream compressFile opened
AppendGz(fs, p, src) ==
    Put(fs, GzPath(p), (IF exists(fs, GzPath(p)) THEN fs[GzPath(p)] ELSE <<>>)
                       \o <<Gzip(src)>>)

\* compressFile, lines 377-390: "finish" appends the gzip member to
\* `${filePath}.gz` and deletes the original; "error" resolves false
CompressDone(fs, p, src, out) ==
    CASE out = "error" -> fs
      [] out = "kept" -> AppendGz(fs, p, src)
      [] OTHER -> deleteFile(AppendGz(fs, p, src), p, FALSE)

\* the moveFile and compressFile calls that may still fail
FsFaults(w) == IF options.faulty = "fs" THEN w.faults ELSE 0

FaultSets(n, k) == {F \in SUBSET (1..n) : Cardinality(F) <= k}

\* rotateSizeBasedFile, lines 255-294: from the end callback to the await of
\* compressFile, or to the end of the task when nothing is compressed
RotateSizeBody(w) ==
    LET nums == existingNumbers(w.files)
    IN UNION {
         LET sh == ShiftLoop(nums, 1, w.files, w.purged, F)
             left == w.faults - Cardinality(F)
             w1 == [w EXCEPT !.files = sh.files, !.purged = sh.purged]
         IN IF exists(sh.files, LivePath)
            THEN {LET rotatedPath == getRotatedFilePath(1)
                      fs2 == moveFile(sh.files, LivePath, rotatedPath, fl)
                      w2 == [w1 EXCEPT !.files = fs2,
                                       !.faults = IF fl THEN left - 1 ELSE left]
                  IN IF options.compress
                     THEN LET c == CompressHead(fs2, rotatedPath)
                          IN [w |-> [w2 EXCEPT !.files = c.files],
                              st |-> c.st, path |-> rotatedPath, src |-> c.src]
                     ELSE [w |-> RotateSizeTail(w2), st |-> "settled", path |-> LivePath,
                           src |-> <<>>]
                  : fl \in {b \in BOOLEAN : b => FsFaults(w) - Cardinality(F) > 0}}
            ELSE {[w |-> RotateSizeTail([w1 EXCEPT !.faults = left]),
                   st |-> "settled", path |-> LivePath, src |-> <<>>]}
         : F \in FaultSets(Len(nums), FsFaults(w))}

\* --------------------------------------- FileTransport, date and hybrid mode
\* getCurrentFilePath, lines 238-244: `${fileNamePattern}-${formattedDate}.log`
getCurrentFilePath(date) == [d |-> toDateString(date), n |-> 0, z |-> 0]

\* ensureCurrentStream, lines 221-223: the stream of the previous bucket is ended
ClosePreviousNot(ss, cur) == ss
ClosePrevious(ss, cur) == IF cur # 0 THEN EndStream(ss, cur) ELSE ss

\* ensureCurrentStream, line 219: the test for a new bucket
BucketChangedAlways(cur, formattedDate) == TRUE
BucketChanged(cur, formattedDate) == cur # formattedDate

\* ensureCurrentStream, lines 216-236; createWriteStream may throw, and the catch
\* leaves currentStream undefined with currentDate already set
ensureCurrentStream(date, w) ==
    LET formattedDate == toDateString(date)
    IN IF BucketChanged(w.currentDate, formattedDate)
       THEN LET ss == ClosePrevious(w.streams, w.currentStream)
                filePath == getCurrentFilePath(date)
            IN {[w EXCEPT !.streams = NewStream(ss, filePath),
                          !.currentStream = Len(ss) + 1,
                          !.currentDate = formattedDate,
                          !.files = OpenFile(@, filePath)]}
               \cup (IF w.faults > 0
                     THEN {[w EXCEPT !.streams = ss,
                                     !.currentStream = 0,
                                     !.currentDate = formattedDate,
                                     !.faults = @ - 1]}
                     ELSE {})
       ELSE {w}

\* lines 320-333: the first `${basename}.${N}${extension}` that does not exist
RECURSIVE NextRotatedPath(_, _, _)
NextRotatedPath(fs, date, rotationNumber) ==
    LET rotatedPath == [d |-> date, n |-> rotationNumber, z |-> 0]
    IN IF exists(fs, rotatedPath) THEN NextRotatedPath(fs, date, rotationNumber + 1)
       ELSE rotatedPath

\* rotateDateBasedFile(filePath, timestamp), lines 300-344: up to the await of
\* compressFile, or to the end of the task when nothing is compressed
RotateDateHead(filePath, timestamp, w) ==
    LET w1 == IF w.currentStream # 0 /\ getCurrentFilePath(timestamp) = filePath
              THEN [w EXCEPT !.streams = EndStream(@, w.currentStream),
                             !.currentStream = 0,
                             !.currentDate = 0]
              ELSE w
        rotatedPath == NextRotatedPath(w1.files, filePath.d, 1)
    IN UNION {LET w2 == [w1 EXCEPT !.files = moveFile(@, filePath, rotatedPath, fl),
                                   !.faults = IF fl THEN @ - 1 ELSE @]
              IN IF options.compress
                 THEN LET c == CompressHead(w2.files, rotatedPath)
                      IN {[w |-> [w2 EXCEPT !.files = c.files], st |-> c.st,
                           path |-> rotatedPath, src |-> c.src]}
                 ELSE {[w |-> w3, st |-> "settled", path |-> LivePath, src |-> <<>>]
                       : w3 \in ensureCurrentStream(timestamp, w2)}
              : fl \in {b \in BOOLEAN : b => FsFaults(w) > 0}}

\* `task()` in processQueue: the task's first synchronous segment
StartTask(t, w) ==
    CASE t.kind = "size" -> {RotateSizeHead(w)}
      [] t.kind = "hybrid" ->
             RotateDateHead(getCurrentFilePath(t.timestamp), t.timestamp, w)
      [] OTHER -> {[w |-> w, st |-> "await", path |-> LivePath, src |-> <<>>]}

\* processQueue, lines 25-36: from the call to the first `await task()`
ProcessQueueDeferred(q, w) == {[q |-> q, w |-> w]}
ProcessQueue(q, w) ==
    IF ProcessQueueReturns(q.processing, q.queue) THEN {[q |-> q, w |-> w]}
    ELSE LET t == Head(q.queue)
         IN {[q |-> [q EXCEPT !.processing = TRUE,
                              !.queue = Tail(@),
                              !.active = @ \cup {[task |-> t, st |-> o.st, path |-> o.path,
                                                  src |-> o.src]},
                              !.started = Append(@, t.id)],
              w |-> o.w] : o \in StartTask(t, w)}

\* enqueue, lines 12-20
Enqueue(t, q, w) ==
    LET kept == Overflow(q.queue)
        gone == IF Len(kept) < Len(q.queue) THEN {Head(q.queue).id} ELSE {}
    IN ProcessQueue([q EXCEPT !.queue = Append(kept, t),
                              !.dropped = @ \cup gone], w)

\* processQueue, line 32: the condition of the while loop
LoopTestOnce(q) == FALSE
LoopTest(q) == Len(q) > 0

\* processQueue, lines 32-51: the loop after `await task()` has settled, with
\* the wait of lines 44-48 before the next turn when the delay is not 0
DrainLoop(a, q, w) ==
    IF ~LoopContinues(a.st)
    THEN {[q |-> [q EXCEPT !.active = @ \ {a}], w |-> w, aborted |-> TRUE]}
    ELSE IF a.st # "delay" /\ BACKGROUND_QUEUE_DELAY > 0
    THEN {[q |-> [q EXCEPT !.active = (@ \ {a}) \cup {[a EXCEPT !.st = "delay"]}],
           w |-> w, aborted |-> FALSE]}
    ELSE IF LoopTest(q.queue)
    THEN LET t == Head(q.queue)
         IN {[q |-> [q EXCEPT !.queue = Tail(@),
                              !.active = (@ \ {a}) \cup {[task |-> t, st |-> o.st,
                                                           path |-> o.path, src |-> o.src]},
                              !.started = Append(@, t.id)],
              w |-> o.w, aborted |-> FALSE] : o \in StartTask(t, w)}
    ELSE {[q |-> [q EXCEPT !.processing = FALSE, !.active = @ \ {a}],
           w |-> w, aborted |-> FALSE]}

\* stream.write(entry): appended to the stream's file, unless the stream has
\* ended or its file has been unlinked (the bytes then go to no name)
WriteStream(fs, s, e) ==
    IF s.ended \/ s.lost THEN fs
    ELSE Put(fs, s.path, (IF exists(fs, s.path) THEN fs[s.path] ELSE <<>>) \o <<Raw(e)>>)

\* what became of a write
WriteResult(s) == IF s.ended THEN "ended" ELSE IF s.lost THEN "unlinked" ELSE "ok"

\* line 163: the rotation trigger
OverSizeLoose(size, len) == size + len >= options.maxFileSize
OverSize(size, len) == size + len > options.maxFileSize

\* a stream.write that throws writes nothing; the catch around it discards the
\* exception, and the statements after the write in the try are skipped
WriteThrows(w) == [w EXCEPT !.faults = @ - 1]

\* handleSizeBasedLogging, lines 158-176; wf: stream.write throws
handleSizeBasedLogging(e, len, wf, q, w) ==
    IF w.stream = 0
    THEN {[q |-> q, w |-> w, trig |-> FALSE, res |-> "nostream", live |-> 0, sid |-> 0]}
    ELSE LET trig == OverSize(w.currentFileSize, len)
             E == IF trig THEN Enqueue(Task(nEnq + 1, "size", 0), q, w)
                  ELSE {[q |-> q, w |-> w]}
         IN {LET s == r.w.streams[r.w.stream]
             IN [q |-> r.q,
                 w |-> IF wf THEN WriteThrows(r.w)
                       ELSE [r.w EXCEPT !.files = WriteStream(@, s, e),
                                        !.currentFileSize = @ + len],
                 trig |-> trig,
                 res |-> IF wf THEN "writefail" ELSE WriteResult(s),
                 live |-> w.stream, sid |-> r.w.stream]
             : r \in E}

\* Buffer.byteLength of an entry found on disk (ids from 100) or logged
EntryLen(e) == IF e >= 100 THEN 1 ELSE hist[e].len

RECURSIVE SumLen(_)
SumLen(es) == IF es = <<>> THEN 0 ELSE EntryLen(Head(es)) + SumLen(Tail(es))

\* getFileSize: stat's size, 0 when the file is absent
getFileSize(fs, p) == IF exists(fs, p) THEN SumLen(Flatten(fs[p])) ELSE 0

\* handleDateBasedLogging, lines 178-191; wf: stream.write throws
handleDateBasedLogging(e, timestamp, wf, q, w) ==
    {IF w1.currentStream = 0
     THEN [q |-> q, w |-> w1, trig |-> FALSE, res |-> "nostream", live |-> 0, sid |-> 0]
     ELSE [q |-> q,
           w |-> IF wf THEN WriteThrows(w1)
                 ELSE [w1 EXCEPT !.files =
                          WriteStream(@, w1.streams[w1.currentStream], e)],
           trig |-> FALSE,
           res |-> IF wf THEN "writefail" ELSE WriteResult(w1.streams[w1.currentStream]),
           live |-> w1.currentStream, sid |-> w1.currentStream]
     : w1 \in ensureCurrentStream(timestamp, w)}

\* handleCombinedLogging, lines 193-214; wf: stream.write throws
handleCombinedLogging(e, len, timestamp, wf, q, w) ==
    UNION {
      IF w1.currentStream = 0
      THEN {[q |-> q, w |-> w1, trig |-> FALSE, res |-> "nostream", live |-> 0, sid |-> 0]}
      ELSE LET currentFilePath == getCurrentFilePath(timestamp)
               currentSize == getFileSize(w1.files, currentFilePath)
               trig == OverSize(currentSize, len)
               E == IF trig THEN Enqueue(Task(nEnq + 1, "hybrid", timestamp), q, w1)
                    ELSE {[q |-> q, w |-> w1]}
           IN {IF r.w.currentStream = 0
               THEN [q |-> r.q, w |-> r.w, trig |-> trig, res |-> "nostream",
                     live |-> w1.currentStream, sid |-> 0]
               ELSE [q |-> r.q,
                     w |-> IF wf THEN WriteThrows(r.w)
                           ELSE [r.w EXCEPT !.files =
                                    WriteStream(@, r.w.streams[r.w.currentStream], e)],
                     trig |-> trig,
                     res |-> IF wf THEN "writefail"
                             ELSE WriteResult(r.w.streams[r.w.currentStream]),
                     live |-> w1.currentStream, sid |-> r.w.currentStream]
               : r \in E}
      : w1 \in ensureCurrentStream(timestamp, w)}

\* ------------------------------------------------------ retention sweep
\* the values of now() at a sweep: two instants of day 3
NowTimes == {6, 7}

\* daysDifference, datetime.ts: Math.floor((date2 - date1) / DAY_IN_MS)
daysDifference(date1, date2) == (date2 - date1) \div DAY_IN_MS

\* isOlderThan, datetime.ts
isOlderThan(date, days, referenceDate) == daysDifference(date, referenceDate) > days

\* extractDateFromFilename, datetime.ts: midnight UTC of the day in the name
extractDateFromFilename(p) == p.d * DAY_IN_MS

\* lines 354-357: the names `^${fileNamePattern}-.*\.log$` in the directory; a
\* compressed file ends in ".gz" and the size-mode log is not in a directory
\* that listFiles can read
listFilesWithPattern(fs) == {p \in DOMAIN fs : p.d >= 1 /\ p.z = 0}

\* FILE_NUMBER_REGEX /\.(\d+)(\.gz)?$/ on a file name; 0 stands for no match:
\* `app.log.N`, `app.log.N.gz` and `other.log.N` match, `app-DATE.N.log[.gz]`
\* does not
matchFileNumber(p) == IF p.d <= 0 /\ p.n >= 1 /\ p.z <= 1 THEN p.n ELSE 0

\* lines 382-391: the numbered files, sorted by number, highest first
RECURSIVE numberedFiles(_)
numberedFiles(P) ==
    IF P = {} THEN <<>>
    ELSE LET p == CHOOSE x \in P : \A y \in P : x.n >= y.n
         IN <<p>> \o numberedFiles(P \ {p})

\* Array.prototype.slice(start): the elements from index start on
slice(sq, start) == {sq[i] : i \in (start + 1)..Len(sq)}

\* unlinkSync under an open stream: the stream keeps writing to the unlinked file
Unlink(ss, D) ==
    [i \in 1..Len(ss) |->
        IF ss[i].path \in D /\ ~ss[i].ended THEN [ss[i] EXCEPT !.lost = TRUE] ELSE ss[i]]

RECURSIVE RemoveAll(_, _)
RemoveAll(fs, D) ==
    IF D = {} THEN fs
    ELSE LET p == CHOOSE x \in D : TRUE IN RemoveAll(deleteFile(fs, p, FALSE), D \ {p})

\* cleanupOldFiles, lines 350-403, with nowDate the value of now() (the local currentDate)
cleanupOldFiles(nowDate, w) ==
    LET old == IF options.maxDays # 0
               THEN {p \in listFilesWithPattern(w.files) :
                        isOlderThan(extractDateFromFilename(p), options.maxDays,
                                    nowDate)}
               ELSE {}
        fs1 == RemoveAll(w.files, old)
        over == IF options.maxFiles # 0 /\ options.rotation \in {"size", "hybrid"}
                THEN slice(numberedFiles({p \in DOMAIN fs1 : matchFileNumber(p) # 0}),
                           options.maxFiles)
                ELSE {}
        D == old \cup over
    IN [w EXCEPT !.files = RemoveAll(fs1, over),
                 !.streams = Unlink(@, D),
                 !.swept = @ \cup UNION {EntriesOf(w.files[p]) : p \in D}]

\* --------------------------------------------------- transport actions
\* the timestamps passed to log(); size mode does not read them
Stamps == IF options.rotation = "size" THEN {3} ELSE Timestamps

\* log() calls per behaviour: hybrid mode, whose every call may rotate and
\* switch the bucket, gets two fewer
MaxLogs == IF options.rotation = "hybrid" THEN MaxEntries - 2 ELSE MaxEntries

\* the step of a log() call that throws: the formatter (lines 142-147), the
\* end() of the previous bucket's stream (line 222), or stream.write
LogFaults(timestamp) ==
    {"none"} \cup
    (IF faults > 0 /\ options.faulty = "log"
     THEN {"format", "write"} \cup
          (IF /\ options.rotation \in {"date", "hybrid"}
              /\ currentStream # 0
              /\ BucketChanged(currentDate, toDateString(timestamp))
           THEN {"end"} ELSE {})
     ELSE {})

\* the exception leaves log(): formatter.format and ensureCurrentStream's
\* currentStream.end() are called outside every try block, stream.write inside one
\* (a call whose formatter throws has no formatted entry: its length is 0)
LogThrows(step) == step \in {"format", "end"}

\* log, lines 138-140: the test of isClosed
LogReturnsNever(closed) == FALSE
LogReturns(closed) == closed

\* log(level, message, meta, timestamp), lines 132-156
Log ==
    /\ UNCHANGED lvars
    /\ Len(hist) < MaxLogs
    /\ options.rotation # "none"
    /\ \E len \in EntryLens, timestamp \in Stamps :
        LET e == Len(hist) + 1
            h0 == [len |-> len, ts |-> timestamp, trig |-> FALSE, busy |-> processing,
                   res |-> "closed", live |-> 0, sid |-> 0, epoch |-> nRot]
        IN IF LogReturns(isClosed)
           THEN /\ hist' = Append(hist, h0)
                /\ justSwept' = FALSE
                /\ justClosed' = FALSE
                /\ UNCHANGED <<options, files, streams, stream, currentFileSize,
                               currentDate, currentStream, isClosed, purged, nRot,
                               faults, swept>>
                /\ UNCHANGED qvars
           ELSE \E step \in LogFaults(timestamp) :
                IF LogThrows(step)
                THEN /\ hist' = Append(hist,
                                     [h0 EXCEPT !.res = "threw",
                                                !.len = IF step = "format" THEN 0
                                                        ELSE len])
                     /\ faults' = faults - 1
                     /\ justSwept' = FALSE
                     /\ justClosed' = FALSE
                     /\ UNCHANGED <<options, files, streams, stream, currentFileSize,
                                    currentDate, currentStream, isClosed, purged, nRot,
                                    swept>>
                     /\ UNCHANGED qvars
                ELSE
                \E r \in (CASE options.rotation = "date" ->
                             handleDateBasedLogging(e, timestamp, step = "write", Q, W)
                           [] options.rotation = "size" ->
                             handleSizeBasedLogging(e, len, step = "write", Q, W)
                           [] OTHER ->
                             handleCombinedLogging(e, len, timestamp, step = "write",
                                                   Q, W)) :
                  /\ SetQ(r.q)
                  /\ SetW(r.w)
                  /\ nEnq' = IF r.trig THEN nEnq + 1 ELSE nEnq
                  /\ hist' = Append(hist, [h0 EXCEPT !.trig = r.trig, !.res = r.res,
                                                     !.live = r.live, !.sid = r.sid])
                  /\ justSwept' = FALSE
                  /\ justClosed' = FALSE
                  /\ UNCHANGED <<options, isClosed, nSettled, nFailed, loopAborted, waiter>>

\* close(), lines 426-441
Close ==
    /\ UNCHANGED lvars
    /\ options.rotation # "none"
    /\ justSwept' = FALSE
    /\ justClosed' = TRUE
    /\ IF isClosed THEN UNCHANGED tvars /\ UNCHANGED qvars
       ELSE /\ isClosed' = TRUE
            /\ streams' = LET s1 == IF stream # 0 THEN EndStream(streams, stream)
                                    ELSE streams
                          IN IF currentStream # 0 THEN EndStream(s1, currentStream)
                             ELSE s1
            /\ currentStream' = 0
            /\ UNCHANGED <<options, files, stream, currentFileSize, currentDate, hist,
                           purged, nRot, faults, swept>>
            /\ UNCHANGED qvars

\* manualCleanup(), lines 422-424
ManualCleanup ==
    /\ UNCHANGED lvars
    /\ options.rotation # "none"
    /\ \E nowDate \in NowTimes : SetW(cleanupOldFiles(nowDate, W))
    /\ justSwept' = TRUE
    /\ justClosed' = FALSE
    /\ UNCHANGED <<options, isClosed, hist>>
    /\ UNCHANGED qvars

\* the callback of stream.end() runs: rotateSizeBasedFile goes on from line 255
RotateAfterEnd ==
    /\ UNCHANGED lvars
    /\ \E a \in active :
        /\ a.st = "ending"
        /\ \E r \in RotateSizeBody(W) :
              /\ SetW(r.w)
              /\ active' = (active \ {a}) \cup
                           {[a EXCEPT !.st = r.st, !.path = r.path, !.src = r.src]}
        /\ justSwept' = FALSE
        /\ justClosed' = FALSE
        /\ UNCHANGED <<options, isClosed, hist, queue, processing, nEnq, started,
                       dropped, nSettled, nFailed, loopAborted, waiter>>

\* what the rotation does after `await compressFile(...)`: lines 290-294 of
\* rotateSizeBasedFile, line 344 of rotateDateBasedFile
AfterCompress(t, w) ==
    IF t.kind = "size" THEN {RotateSizeTail(w)} ELSE ensureCurrentStream(t.timestamp, w)

\* the promise of compressFile resolves
CompressFinish ==
    /\ UNCHANGED lvars
    /\ \E a \in active :
        /\ a.st \in {"compressing", "nocompress"}
        /\ \E out \in IF a.st = "nocompress" THEN {"error"}
                      ELSE {"done"} \cup (IF FsFaults(W) > 0 THEN {"kept", "error"}
                                           ELSE {}) :
              LET used == IF a.st = "compressing" /\ out # "done" THEN 1 ELSE 0
                  w1 == [W EXCEPT !.files = CompressDone(@, a.path, a.src, out),
                                  !.faults = @ - used]
              IN \E w2 \in AfterCompress(a.task, w1) : SetW(w2)
        /\ active' = (active \ {a}) \cup {[a EXCEPT !.st = "settled", !.src = <<>>]}
        /\ justSwept' = FALSE
        /\ justClosed' = FALSE
        /\ UNCHANGED <<options, isClosed, hist, queue, processing, nEnq, started,
                       dropped, nSettled, nFailed, loopAborted, waiter>>

\* ------------------------------------------------------- queue actions
\* queue.enqueue(task) with a task that is not a rotation
EnqueueTask ==
    /\ UNCHANGED lvars
    /\ nEnq < MaxTasks
    /\ options.rotation = "none"
    /\ \E r \in Enqueue(Task(nEnq + 1, "task", 0), Q, W) :
          /\ SetQ(r.q)
          /\ SetW(r.w)
    /\ nEnq' = nEnq + 1
    /\ justSwept' = FALSE
    /\ justClosed' = FALSE
    /\ UNCHANGED <<options, isClosed, hist, nSettled, nFailed, loopAborted, waiter>>

\* the promise of the running plain task settles: resolved or rejected
TaskSettle ==
    /\ UNCHANGED lvars
    /\ nSettled < MaxSettles
    /\ \E a \in active, ok \in BOOLEAN :
          /\ a.task.kind = "task"
          /\ a.st = "await"
          /\ active' = (active \ {a}) \cup
                       {[a EXCEPT !.st = IF ok THEN "settled" ELSE "failed"]}
          /\ nFailed' = IF ok THEN nFailed ELSE nFailed + 1
    /\ nSettled' = nSettled + 1
    /\ UNCHANGED <<queue, processing, nEnq, started, dropped, loopAborted, waiter,
                   justSwept, justClosed>>
    /\ UNCHANGED tvars

\* the drain loop resumes after its task has settled, or after the delay
DrainResume ==
    /\ UNCHANGED lvars
    /\ \E a \in active :
          /\ a.st \in {"settled", "failed", "delay"}
          /\ \E r \in DrainLoop(a, Q, W) :
                /\ SetQ(r.q)
                /\ SetW(r.w)
                /\ loopAborted' = (loopAborted \/ r.aborted)
    /\ justSwept' = FALSE
    /\ justClosed' = FALSE
    /\ UNCHANGED <<options, isClosed, hist, nEnq, nSettled, nFailed, waiter>>

\* waitForCompletion, line 72: the loop condition
StillBusyQueueOnly(proc, q) == Len(q) > 0
StillBusy(proc, q) == proc \/ Len(q) > 0

\* waitForCompletion(), lines 71-75: the call runs up to the first await of the
\* 10 ms timer, or returns at once when the queue is idle
WaitForCompletion ==
    /\ UNCHANGED lvars
    /\ waiter = "none"
    /\ waiter' = IF StillBusy(processing, queue) THEN "waiting" ELSE "resolved"
    /\ UNCHANGED <<queue, processing, active, nEnq, started, dropped, nSettled, nFailed,
                   loopAborted, justSwept, justClosed>>
    /\ UNCHANGED tvars

\* the 10 ms timer fires: the loop condition is tested again
WaitPoll ==
    /\ UNCHANGED lvars
    /\ waiter = "waiting"
    /\ waiter' = IF StillBusy(processing, queue) THEN "waiting" ELSE "resolved"
    /\ UNCHANGED <<queue, processing, active, nEnq, started, dropped, nSettled, nFailed,
                   loopAborted, justSwept, justClosed>>
    /\ UNCHANGED tvars

\* ------------------------------------------------------- specifications
InitQueue ==
    /\ queue = <<>>
    /\ processing = FALSE
    /\ active = {}
    /\ nEnq = 0
    /\ started = <<>>
    /\ dropped = {}
    /\ nSettled = 0
    /\ nFailed = 0
    /\ loopAborted = FALSE
    /\ waiter = "none"

\* no call of the Logger class: its static fields keep their initial values
\* (logger.ts lines 9-10)
NoLogger ==
    /\ logLevel = "info"
    /\ transports = <<>>
    /\ dispatch = [called |-> FALSE]

\* no FileTransport constructed
NoTransport ==
    /\ options = [rotation |-> "none", maxFileSize |-> 0, compress |-> FALSE,
                  maxFiles |-> 0, maxDays |-> 0, pre |-> 0, faulty |-> "none"]
    /\ files = <<>>
    /\ streams = <<>>
    /\ stream = 0
    /\ currentFileSize = 0
    /\ currentDate = 0
    /\ currentStream = 0
    /\ isClosed = FALSE
    /\ hist = <<>>
    /\ purged = {}
    /\ nRot = 0
    /\ faults = 0
    /\ swept = {}
    /\ justSwept = FALSE
    /\ justClosed = FALSE

\* a BackgroundQueue on its own, given plain tasks
InitQ ==
    /\ InitQueue
    /\ NoTransport
    /\ NoLogger

NextQ == EnqueueTask \/ TaskSettle \/ DrainResume \/ WaitForCompletion \/ WaitPoll

SpecQ == InitQ /\ [][NextQ]_vars

\* the queue under the event loop's scheduling: a settled promise's continuation
\* and an expired timer's callback are eventually run, and every task terminates
SpecQLive ==
    /\ InitQ
    /\ [][NextQ]_vars
    /\ WF_vars(TaskSettle)
    /\ WF_vars(DrainResume)
    /\ WF_vars(WaitPoll)

\* the directory a size-mode transport finds: generations 1..k as this code
\* leaves them, each holding one entry of an earlier run; with one generation
\* and compress off, also a live file holding an entry of the earlier run
PreFiles(compress, k) ==
    IF compress
    THEN (IF k = 0 THEN <<>>
          ELSE Put(<<>>, [d |-> 0, n |-> 1, z |-> 2], <<Gzip(<<Raw(101)>>)>>))
    ELSE [p \in {[d |-> 0, n |-> g, z |-> 0] : g \in (IF k = 1 THEN 0 ELSE 1)..k}
             |-> <<Raw(100 + p.n)>>]

\* the directory a date or hybrid transport finds: a bucket file of day 1 and
\* one of day 2, each holding one entry of an earlier run
PreBuckets(k) ==
    IF k = 0 THEN <<>>
    ELSE [p \in {[d |-> g, n |-> 0, z |-> 0] : g \in 1..2} |-> <<Raw(100 + p.d)>>]

\* the rotated files of another transport's size-mode log, other.log.1 and
\* other.log.2, in the directory a hybrid transport is given
OtherLog(k) ==
    IF k = 0 THEN <<>>
    ELSE [p \in {[d |-> -1, n |-> g, z |-> 0] : g \in 1..2} |-> <<Raw(110 + p.n)>>]

\* initializeTransport, line 118: the modes whose constructor runs the sweep
SweepsAtConstructionHybridOnly(rotation) == rotation = "hybrid"
SweepsAtConstruction(rotation) == rotation = "date" \/ rotation = "hybrid"

\* initializeTransport, lines 117-130, on the directory disk at the instant
\* nowDate: the fields and the directory after the constructor
initializeTransport(rotation, disk, nowDate) ==
    LET w0 == [files |-> disk, streams |-> <<>>, stream |-> 0, currentFileSize |-> 0,
               currentDate |-> 0, currentStream |-> 0, purged |-> {}, nRot |-> 0,
               faults |-> 0, swept |-> {}]
    IN IF SweepsAtConstruction(rotation)
       THEN cleanupOldFiles(nowDate, w0)
       ELSE IF rotation = "size"
       THEN [w0 EXCEPT !.currentFileSize = getFileSize(disk, LivePath),
                       !.streams = NewStream(<<>>, LivePath),
                       !.stream = 1,
                       !.files = OpenFile(disk, LivePath)]
       ELSE w0

\* the state after `new FileTransport(options)`, lines 94-130; date mode reads
\* neither compress nor maxFiles, and in hybrid mode no file name matches the
\* pattern maxFiles is applied to, so one value of it is drawn
InitTransport(f, faulty) ==
    /\ InitQueue
    /\ \E rotation \in {"size", "date", "hybrid"}, compress \in BOOLEAN,
          maxFiles \in 1..MaxMaxFiles, pre \in 0..MaxPre, nowDate \in NowTimes :
          /\ (rotation = "size" /\ compress => pre <= 1)
          /\ (rotation # "size" => pre \in {0, 2})
          /\ (rotation = "date" => ~compress /\ maxFiles = 1)
          /\ (rotation = "hybrid" => maxFiles = 1)
          /\ options = [rotation |-> rotation, maxFileSize |-> MaxFileSize,
                        compress |-> compress, maxFiles |-> maxFiles, maxDays |-> 1,
                        pre |-> pre, faulty |-> faulty]
          /\ LET disk == IF rotation = "size" THEN PreFiles(compress, pre)
                         ELSE IF rotation = "hybrid"
                         THEN PreBuckets(pre) @@ OtherLog(pre)
                         ELSE PreBuckets(pre)
                 w == initializeTransport(rotation, disk, nowDate)
             IN /\ files = w.files
                /\ streams = w.streams
                /\ stream = w.stream
                /\ currentFileSize = w.currentFileSize
                /\ swept = w.swept
          /\ justSwept = SweepsAtConstruction(rotation)
    /\ currentDate = 0
    /\ currentStream = 0
    /\ isClosed = FALSE
    /\ justClosed = FALSE
    /\ hist = <<>>
    /\ purged = {}
    /\ nRot = 0
    /\ faults = f
    /\ NoLogger

Init == InitTransport(0, "none")

InitFault == InitTransport(MaxFaults, "fs")

InitThrow == InitTransport(MaxFaults, "log")

Next == Log \/ Close \/ ManualCleanup \/ RotateAfterEnd \/ CompressFinish \/ DrainResume

Spec == Init /\ [][Next]_vars

\* the same transport on a filesystem whose calls may fail
SpecFault == InitFault /\ [][Next]_vars

\* the same transport with a formatter and streams whose calls may throw
SpecThrow == InitThrow /\ [][Next]_vars

\* ------------------------------------------------------------ the Logger
\* LogLevel (types.ts) and LOG_LEVEL_PRIORITY (constants.ts lines 24-29)
LogLevels == {"debug", "info", "warn", "error"}

LOG_LEVEL_PRIORITY == [debug |-> 10, info |-> 20, warn |-> 30, error |-> 40]

\* isLogLevelEnabled(level, threshold), utils/log-level.ts lines 10-12
isLogLevelEnabled(level, threshold) ==
    LOG_LEVEL_PRIORITY[level] >= LOG_LEVEL_PRIORITY[threshold]

\* Logger.shouldLog(level), logger.ts lines 80-82
shouldLog(level) == isLogLevelEnabled(level, logLevel)

\* the transport objects a program registers, and the argument lists of
\* useTransports: every sequence of distinct transports
TransportIds == {1, 2, 3}

Registrations ==
    {ts \in UNION {[1..n -> TransportIds] : n \in 0..Cardinality(TransportIds)} :
        \A i, j \in 1..Len(ts) : i # j => ts[i] # ts[j]}

\* the arguments of a Logger.debug/info/warn/error call: the message, or for
\* Logger.error an Error object with that message; meta may be left out
Messages == {"a"}

Arguments == [isError : BOOLEAN, message : Messages]

Metas == {"undefined", "m"}

\* the value now() returns during a Logger call
Clock == {1}

\* the default value of the meta parameter, logger.ts lines 119, 135, 151, 167
\* and 90: `meta: Meta = {}`
DefaultMeta(meta) == IF meta = "undefined" THEN {} ELSE {meta}

\* the message and the meta (its keys) Logger.error passes on, lines 165-177
ErrorArgs(errOrMsg, meta) ==
    IF errOrMsg.isError
    THEN [message |-> errOrMsg.message,
          meta |-> {"name", "message", "stack"} \cup meta]
    ELSE [message |-> errOrMsg.message, meta |-> meta]

\* what Logger.debug / info / warn / error pass to Logger.log, lines 118-177
LogArgs(level, arg, meta) ==
    IF level = "error" THEN ErrorArgs(arg, DefaultMeta(meta))
    ELSE [message |-> arg.message, meta |-> DefaultMeta(meta)]

\* the catch of lines 100-102 is empty: the exception of transport.log ends there
RethrowsAlways(threw) == threw

Rethrows(threw) == FALSE

\* the forEach of lines 97-103 from element i on: the transport.log calls made, in
\* call order, and whether an exception left the loop; failing is the set of
\* transports whose log() throws on this call
RECURSIVE forEachFrom(_, _, _, _, _, _, _)
forEachFrom(i, ts, level, message, meta, timestamp, failing) ==
    IF i > Len(ts) THEN [calls |-> <<>>, threw |-> FALSE]
    ELSE LET transport == ts[i]
             call == [transport |-> transport, level |-> level, message |-> message,
                      meta |-> meta, timestamp |-> timestamp,
                      threw |-> transport \in failing]
         IN IF Rethrows(call.threw)
            THEN [calls |-> <<call>>, threw |-> TRUE]
            ELSE LET rest == forEachFrom(i + 1, ts, level, message, meta, timestamp,
                                         failing)
                 IN [calls |-> <<call>> \o rest.calls, threw |-> rest.threw]

\* Logger.log(level, message, meta), lines 90-105
LoggerLog(level, message, meta, timestamp, failing) ==
    IF ~shouldLog(level) THEN [calls |-> <<>>, threw |-> FALSE]
    ELSE forEachFrom(1, transports, level, message, meta, timestamp, failing)

\* Logger.setLevel(level), lines 38-40
SetLevel ==
    /\ \E level \in LogLevels :
         /\ level # logLevel
         /\ logLevel' = level
    /\ UNCHANGED <<transports, dispatch>>
    /\ UNCHANGED <<tvars, qvars, justSwept, justClosed>>

\* Logger.useTransports(...transports), lines 60-62
UseTransports ==
    /\ \E ts \in Registrations :
         /\ ts # transports
         /\ transports' = ts
    /\ UNCHANGED <<logLevel, dispatch>>
    /\ UNCHANGED <<tvars, qvars, justSwept, justClosed>>

\* Logger.debug / info / warn / error (message, meta = {}), lines 118-177: each
\* calls Logger.log with its own level
LoggerCall ==
    /\ \E level \in LogLevels, arg \in Arguments, meta \in Metas,
          timestamp \in Clock, failing \in SUBSET Range(transports) :
         /\ arg.isError => level = "error"
         /\ LET a == LogArgs(level, arg, meta)
                r == LoggerLog(level, a.message, a.meta, timestamp, failing)
            IN dispatch' = [called |-> TRUE, level |-> level, arg |-> arg,
                            meta |-> meta, registered |-> transports,
                            calls |-> r.calls, threw |-> r.threw]
    /\ UNCHANGED <<logLevel, transports>>
    /\ UNCHANGED <<tvars, qvars, justSwept, justClosed>>

\* the Logger class at load time (lines 9-25): the level is "info" or the valid
\* level named by the environment variable LOG_LEVEL; no FileTransport exists
InitLogger ==
    /\ InitQueue
    /\ NoTransport
    /\ logLevel \in LogLevels
    /\ transports = <<>>
    /\ dispatch = [called |-> FALSE]

NextLogger == SetLevel \/ UseTransports \/ LoggerCall

SpecLogger == InitLogger /\ [][NextLogger]_vars

\* ------------------------------------------------------------ the claims
Drained == active = {} /\ queue = <<>> /\ ~processing

Logged == 1..Len(hist)

SizeMode == options.rotation = "size"

\* the entries on disk at construction
PreEntries == AllEntries(PreFiles(options.compress, options.pre))

\* the rotated files of the size-mode log and their generation numbers
Rotated(fs) == {p \in DOMAIN fs : p.d = 0 /\ p.n >= 1}
Gens(fs) == {p.n : p \in Rotated(fs)}
Plain(g) == [d |-> 0, n |-> g, z |-> 0]

\* C1: in size and hybrid mode the entry whose log() call enqueues a rotation is
\* written to the handle that was live when log() was called, never to an
\* ended or absent handle.
C1_TriggerEntryOnLiveHandle ==
    \A e \in Logged :
        hist[e].trig => hist[e].res = "ok" /\ hist[e].sid = hist[e].live

\* C2: size mode, one rotation, queue drained: exactly one generation-1 file
\* exists and holds everything logged before the rotation; the live file holds
\* exactly what was logged after it.
C2_OneRotationSplitsContent ==
    (SizeMode /\ ~isClosed /\ Drained /\ nRot = 1 /\ options.pre = 0) =>
        /\ Cardinality({p \in Rotated(files) : p.n = 1}) = 1
        /\ \A p \in Rotated(files) :
              EntriesOf(files[p]) = {e \in Logged : hist[e].epoch = 0}
        /\ EntriesOf(files[LivePath]) = {e \in Logged : hist[e].epoch >= 1}

\* C3: size mode, transport open: an entry logged while a rotation task is queued
\* or in progress is, once the queue has drained, in the live file or in a
\* rotated file, unless its file was deleted by maxFiles overflow.
C3_NoEntryLostDuringRotation ==
    (SizeMode /\ Drained) =>
        \A e \in Logged :
            (hist[e].busy /\ hist[e].res # "closed") =>
                e \in AllEntries(files) \cup purged \cup swept

\* the files after one shift of the dense set of old: generation g at g+1, the
\* live content at generation 1, nothing above maxFiles
ShiftedBy(old, new) ==
    LET k == Cardinality(Gens(old))
        top == IF k + 1 <= options.maxFiles THEN k + 1 ELSE options.maxFiles
    IN /\ Rotated(new) = {Plain(g) : g \in 1..top}
       /\ new[Plain(1)] = old[LivePath]
       /\ \A g \in 1..k : g + 1 <= options.maxFiles => new[Plain(g + 1)] = old[Plain(g)]
       /\ new[LivePath] = <<>>

\* C4: a size rotation with compress=false on a dense set .1 .. .k moves every
\* generation g with g+1 <= maxFiles to g+1 with its content unchanged, deletes
\* the others, and makes the live file's content generation 1.
C4_ShiftPreservesGenerations ==
    [][(SizeMode /\ ~options.compress /\ nRot' = nRot + 1
        /\ Rotated(files) = {Plain(g) : g \in 1..Cardinality(Gens(files))})
       => ShiftedBy(files, files')]_vars

C4_Witness ==
    /\ SizeMode /\ ~options.compress /\ options.maxFiles = 2 /\ options.pre = 2
    /\ nRot = 1
    /\ files[Plain(2)] = <<Raw(101)>>
    /\ 102 \in purged
    /\ 1 \in EntriesOf(files[Plain(1)])

\* C5: after a completed size rotation the newest rotated file is exactly
\* {filePath}.1.gz (gzip content, no uncompressed .1 left) when compress=true,
\* and exactly {filePath}.1 when compress=false.
C5_NewestRotatedFileName ==
    (SizeMode /\ Drained /\ nRot >= 1) =>
        IF options.compress
        THEN /\ [d |-> 0, n |-> 1, z |-> 1] \in DOMAIN files
             /\ \A i \in 1..Len(files[[d |-> 0, n |-> 1, z |-> 1]]) :
                   files[[d |-> 0, n |-> 1, z |-> 1]][i].gz
             /\ Plain(1) \notin DOMAIN files
        ELSE Plain(1) \in DOMAIN files

\* a rotation task is suspended between its steps
RotationInFlight == \E a \in active : a.st \in {"ending", "compressing", "nocompress"}

\* C6: size mode from no rotated files: the generation numbers of the rotated
\* files are exactly 1..k with k <= maxFiles, and between rotations there are
\* no more than maxFiles rotated files.
C6_GenerationsDense ==
    (SizeMode /\ options.pre = 0) =>
        /\ Gens(files) = 1..Cardinality(Gens(files))
        /\ Cardinality(Gens(files)) <= options.maxFiles
        /\ (~RotationInFlight => Cardinality(Rotated(files)) <= options.maxFiles)

C6_Witness ==
    /\ SizeMode /\ options.pre = 0 /\ ~options.compress /\ options.maxFiles = 1
    /\ nRot >= 2 /\ Drained
    /\ purged # {}
    /\ Gens(files) = {1}

\* C7: a rotation with a failing step loses no data: every entry that reached a
\* file is still in the live file or in a rotated file, unless its file was
\* deleted by maxFiles overflow.
C7_FailedRotationKeepsData ==
    SizeMode =>
        ({e \in Logged : hist[e].res = "ok"} \cup PreEntries)
            \subseteq (AllEntries(files) \cup purged \cup swept)

\* C8: tasks start in enqueue order and at most one task is started and not yet
\* followed by the loop's next turn; an enqueue while draining starts no second loop.
C8_OneTaskAtATimeInOrder ==
    /\ Cardinality(active) <= 1
    /\ (active # {} => processing)
    /\ \A i \in 1..Len(started), j \in 1..Len(started) :
          i < j => started[i] < started[j]
    /\ \A a \in active : a.task.id = started[Len(started)]

C8_Witness ==
    /\ Len(started) >= 2
    /\ Len(queue) >= 1
    /\ \E a \in active : a.st = "await"

\* C9: a rejecting task is swallowed: the loop goes on, whenever no loop is
\* suspended every enqueued task that was not dropped has been called, in order,
\* and no exception leaves processQueue.
C9_FailureDoesNotStopLoop ==
    /\ ~loopAborted
    /\ (active = {} =>
          /\ queue = <<>>
          /\ ~processing
          /\ Range(started) = (1..nEnq) \ dropped
          /\ \A i \in 1..Len(started), j \in 1..Len(started) :
                i < j => started[i] < started[j])
    /\ Range(started) \cup {queue[i].id : i \in 1..Len(queue)} \cup dropped = 1..nEnq

C9_Witness ==
    /\ nEnq = 3 /\ nFailed >= 2
    /\ active = {}
    /\ started = <<1, 2, 3>>

\* C10: the pending list never holds more than MAX_QUEUE_SIZE tasks; the task an
\* overflowing enqueue removes is the oldest pending one and is never called;
\* the new task is at the tail.
C10_BoundedQueueDropsOldest ==
    /\ Len(queue) <= MAX_QUEUE_SIZE
    /\ dropped \cap Range(started) = {}
    /\ \A i \in 1..Len(queue) : queue[i].id = nEnq - Len(queue) + i
    /\ \A x \in dropped : \A i \in 1..Len(queue) : x < queue[i].id

C10_Witness ==
    /\ 2 \in dropped
    /\ started = <<1, 3>>
    /\ Len(queue) = MAX_QUEUE_SIZE - 1

\* the tasks called so far are distinct
NoTaskTwice == \A i \in 1..Len(started), j \in 1..Len(started) : i # j => started[i] # started[j]

\* C11: waitForCompletion() does not resolve while a task is running or pending:
\* when it resolves processing is false, the pending list is empty and every
\* enqueued task that was not dropped has run exactly once; and when every task
\* terminates and enqueueing stops, a waiting call eventually resolves.
C11_WaitForCompletion ==
    /\ [][(waiter # "resolved" /\ waiter' = "resolved") =>
            /\ active = {} /\ ~processing /\ queue = <<>>
            /\ Range(started) = (1..nEnq) \ dropped
            /\ NoTaskTwice]_vars
    /\ ([](nEnq <= MaxSettles) => [](waiter = "waiting" => <>(waiter = "resolved")))

C11_Witness ==
    /\ waiter = "resolved"
    /\ nEnq = 2 /\ nSettled = 2 /\ nFailed = 1
    /\ started = <<1, 2>>

\* C12: log() performs none of the rotation's file operations itself: a log()
\* step calls no queued task (so it closes no stream for a rotation), and it
\* renames, deletes and compresses nothing; the drain loop does so in a later step.
C12_LogDefersRotation ==
    [][Len(hist') = Len(hist) + 1 =>
          /\ started' = started
          /\ DOMAIN files \subseteq DOMAIN files'
          /\ \A p \in DOMAIN files' : (p.n > 0 \/ p.z > 0) => p \in DOMAIN files]_vars

DateMode == options.rotation = "date"

\* `${fileNamePattern}-${day}.log`, the bucket file of a calendar day
Bucket(day) == [d |-> day, n |-> 0, z |-> 0]

BucketFiles(fs) == {p \in DOMAIN fs : p.d >= 1 /\ p.n = 0 /\ p.z = 0}

\* the instant falls on the UTC calendar day
OnDay(ts, day) == day * DAY_IN_MS <= ts /\ ts < (day + 1) * DAY_IN_MS

\* C13: in date mode every bucket file holds only entries whose timestamp falls
\* on the file's UTC day (besides what an earlier run left in it), and every
\* entry that was written is in the file of its timestamp's day, in whatever
\* order the timestamps come, unless a retention sweep deleted the file.
C13_EntryInItsDayFile ==
    DateMode =>
        /\ \A p \in BucketFiles(files) : \A e \in EntriesOf(files[p]) :
              IF e > 100 THEN e = 100 + p.d ELSE OnDay(hist[e].ts, p.d)
        /\ \A e \in Logged : (hist[e].res = "ok" /\ e \notin swept) =>
              \E p \in BucketFiles(files) :
                  OnDay(hist[e].ts, p.d) /\ e \in EntriesOf(files[p])

C13_Witness ==
    /\ DateMode /\ swept = {} /\ Len(hist) = 3
    /\ hist[1].ts = 4 /\ hist[2].ts = 3 /\ hist[3].ts = 4
    /\ Flatten(files[Bucket(2)]) = <<1, 3>>
    /\ Flatten(files[Bucket(1)]) = <<2>>

\* the write streams of the transport that are open
OpenStreams == {i \in 1..Len(streams) : ~streams[i].ended}

\* C14: a transport has at most one open write stream at any time, in every
\* rotation mode and across any interleaving of log() calls and rotation
\* tasks: the previous stream is ended before its replacement is opened.
C14_AtMostOneOpenStream ==
    /\ [](Cardinality(OpenStreams) <= 1)
    /\ [][Len(streams') > Len(streams) =>
            \A i \in 1..(Len(streams') - 1) : streams'[i].ended]_vars

C14_Witness ==
    /\ options.rotation = "hybrid" /\ Len(streams) = 3 /\ Len(started) >= 1
    /\ streams[1].ended /\ streams[2].ended /\ ~streams[3].ended
    /\ currentStream = 3

\* C15: after a stream-open failure in date or hybrid mode the transport holds
\* no live stream, and a later log() call re-attempts the open: a log() call
\* made with no live stream, when the open would succeed, reopens the stream
\* and writes its entry, also for the date bucket whose open failed.
C15_ReopenAfterOpenFailure ==
    [][(Len(hist') = Len(hist) + 1 /\ options.rotation \in {"date", "hybrid"}
        /\ ~isClosed /\ currentStream = 0 /\ faults = 0
        /\ ~hist'[Len(hist')].trig)
       => (currentStream' # 0 /\ hist'[Len(hist')].res = "ok")]_vars

HybridMode == options.rotation = "hybrid"

\* the rotated files of the date buckets, compressed or not
RotatedOfBucket(fs, day) == {p \in DOMAIN fs : p.d = day /\ p.n >= 1}

\* C16: successive hybrid rotations of one date bucket use distinct suffixes,
\* with compress on or off: the bucket file is renamed to the lowest number N
\* that no rotated file of the bucket (`.N.log` or `.N.log.gz`) has taken, so
\* no number is used twice.
C16_DistinctRotationSuffixes ==
    [][HybridMode =>
          \A p \in DOMAIN files' \ DOMAIN files :
              (p.d >= 1 /\ p.n >= 1 /\ p.z = 0) =>
                  /\ \A r \in RotatedOfBucket(files, p.d) : r.n # p.n
                  /\ \A k \in 1..(p.n - 1) :
                        \E r \in RotatedOfBucket(files, p.d) : r.n = k]_vars

\* C17: manualCleanup() in size mode with maxFiles = M leaves exactly the M most
\* recent generations, the rotated files numbered 1..M, and deletes every
\* rotated file of an older generation.
C17_CleanupKeepsNewestGenerations ==
    [][(SizeMode /\ justSwept') =>
          Rotated(files') = {p \in Rotated(files) : p.n <= options.maxFiles}]_vars

\* the date buckets that have a file in the directory
BucketDays(fs) == {p.d : p \in {x \in DOMAIN fs : x.d >= 1}}

\* C18: in hybrid mode maxFiles bounds the size-rotated files: right after a
\* retention sweep every date bucket has at most maxFiles rotated generations
\* `.N.log` or `.N.log.gz`.
C18_HybridMaxFilesPerBucket ==
    (HybridMode /\ justSwept) =>
        \A day \in BucketDays(files) :
            Cardinality({p.n : p \in RotatedOfBucket(files, day)}) <= options.maxFiles

\* C19: a maxDays sweep in date or hybrid mode deletes a file of the
\* transport's pattern, be it a bucket file, a rotated file or a compressed
\* one, if and only if the day in its name is more than maxDays days before
\* the sweep's reference time.
C19_MaxDaysSweepExact ==
    [][(options.rotation \in {"date", "hybrid"} /\ justSwept') =>
          \E nowDate \in NowTimes :
              \A p \in DOMAIN files : p.d >= 1 =>
                  (p \notin DOMAIN files' <=>
                      isOlderThan(extractDateFromFilename(p), options.maxDays, nowDate))]_vars

\* the retention sweep has been applied to the directory: a further sweep at
\* the same time finds nothing to delete
SweepApplied == \A nowDate \in NowTimes : cleanupOldFiles(nowDate, W).files = files

\* nothing of what the constructor found in the directory has been deleted
NothingSwept ==
    /\ swept = {}
    /\ DOMAIN PreFiles(options.compress, options.pre) \subseteq DOMAIN files

\* a step that is a manualCleanup() call applies the sweep
ManualCleanupSweeps ==
    justSwept' => \E nowDate \in NowTimes : files' = cleanupOldFiles(nowDate, W).files

\* a rotated file disappears only in a sweep, or by generation overflow inside
\* a size rotation, or because a rotation moved or compressed it (its content
\* is then under another name)
RotatedDeletedOnlyBySweepOrOverflow ==
    \A p \in DOMAIN files \ DOMAIN files' : p.n >= 1 =>
        \/ justSwept'
        \/ EntriesOf(files[p]) \subseteq AllEntries(files')
        \/ (SizeMode /\ OverMaxFiles(p.n) /\ EntriesOf(files[p]) \subseteq purged')

\* C20: the retention sweep has run when the constructor returns, in every
\* rotation mode (size, date, hybrid), and runs again on each manualCleanup()
\* call; rotated files are deleted at no other time, except by generation
\* overflow inside a rotation.
C20_SweepAtConstructionEveryMode ==
    /\ ((SizeMode \/ DateMode \/ HybridMode) => SweepApplied)
    /\ [][ManualCleanupSweeps]_vars
    /\ [][RotatedDeletedOnlyBySweepOrOverflow]_vars

\* C20, amended: the retention sweep has run when the constructor returns in
\* date and hybrid mode, while in size mode the constructor deletes nothing;
\* it runs on each manualCleanup() call; rotated files are deleted at no other
\* time, except by generation overflow inside a rotation.
C20_SweepAtConstructionDateHybrid ==
    /\ (IF SizeMode THEN NothingSwept ELSE SweepApplied)
    /\ [][ManualCleanupSweeps]_vars
    /\ [][RotatedDeletedOnlyBySweepOrOverflow]_vars

C20_Witness ==
    /\ DateMode /\ options.pre = 2
    /\ 101 \in swept /\ 1 \in swept /\ justSwept
    /\ Bucket(1) \notin DOMAIN files /\ Bucket(2) \in DOMAIN files

\* C28: once close() has been called the transport never holds an open stream
\* again: a rotation task enqueued before close() that runs afterwards opens no
\* new live stream, and none is open when the queue has drained.
C28_NoOpenStreamAfterClose ==
    isClosed => OpenStreams = {}

\* C27: a hybrid rotation task ends the transport's live stream only when that
\* stream points at the over-sized bucket file: when the drain loop starts a
\* task whose bucket file is not the one the live stream writes to, the stream
\* stays open and the tracked bucket is unchanged.
C27_RotationClosesOnlyItsStream ==
    [][(HybridMode /\ options.compress /\ hist' = hist
        /\ Len(started') = Len(started) + 1
        /\ currentStream # 0
        /\ streams[currentStream].path # getCurrentFilePath(Head(queue).timestamp))
       => /\ ~streams'[currentStream].ended
          /\ currentStream' = currentStream
          /\ currentDate' = currentDate]_vars

\* the getters of the queue
size == Len(queue)
isProcessing == processing

\* C24: on an idle queue enqueue starts the task before it returns: after the
\* call isProcessing is true and the task has been called; and size counts
\* only the tasks not yet started, the running one excluded.
C24_EnqueueStartsTaskOnIdleQueue ==
    /\ [](size = nEnq - Len(started) - Cardinality(dropped))
    /\ [][(nEnq' = nEnq + 1 /\ ~isProcessing) =>
            /\ isProcessing'
            /\ started' = Append(started, nEnq')
            /\ size' = 0
            /\ \E a \in active' : a.task.id = nEnq' /\ a.st = "await"]_vars

C24_Witness ==
    /\ isProcessing /\ nEnq = 3 /\ size = 2
    /\ started = <<1>>
    /\ \E a \in active : a.task.id = 1 /\ a.st = "await"

\* C30: no task is stranded: at every point between two turns of the event
\* loop, when no drain loop is active (isProcessing false) the pending list is
\* empty, also when a task is enqueued while the last task of a drain is
\* finishing or during the wait between two tasks.
C30_NoTaskStranded ==
    ~isProcessing => (queue = <<>> /\ active = {})

C30_Witness ==
    /\ ~isProcessing /\ queue = <<>>
    /\ nEnq = 3 /\ nSettled = 3 /\ nFailed = 0
    /\ started = <<1, 2, 3>>

\* the two instants fall on one UTC calendar day
SameDay(t1, t2) == \E day \in 1..3 : OnDay(t1, day) /\ OnDay(t2, day)

\* C25: in date mode the bucket switch is idempotent: a log() call opens at
\* most one stream, and none when its timestamp falls on the same UTC day as
\* the timestamp of the log() call before it.
C25_SameDayOpensOneStream ==
    [][(DateMode /\ Len(hist') = Len(hist) + 1) =>
          /\ Len(streams') <= Len(streams) + 1
          /\ (Len(hist) >= 1 /\ SameDay(hist[Len(hist)].ts, hist'[Len(hist')].ts))
                => streams' = streams]_vars

C25_Witness ==
    /\ DateMode /\ Len(hist) = 4 /\ Len(streams) = 2
    /\ hist[1].ts = 4 /\ hist[2].ts = 5 /\ hist[3].ts = 3 /\ hist[4].ts = 3
    /\ Flatten(files[Bucket(2)]) = <<102, 1, 2>>
    /\ Flatten(files[Bucket(1)]) = <<3, 4>>

\* C22: after close() every log() call is a no-op: it writes nothing, opens no
\* stream and enqueues no rotation; and close() is idempotent: a close() call
\* on a closed transport ends no stream and changes nothing.
C22_ClosedTransportIgnoresCalls ==
    /\ [][(isClosed /\ Len(hist') = Len(hist) + 1) =>
            /\ hist'[Len(hist')].res = "closed"
            /\ UNCHANGED <<files, streams, stream, currentStream, currentDate,
                           currentFileSize, isClosed>>
            /\ UNCHANGED <<queue, processing, active, nEnq, started>>]_vars
    /\ [][(isClosed /\ justClosed') =>
            /\ UNCHANGED <<files, streams, stream, currentStream, currentDate,
                           currentFileSize, isClosed, hist>>
            /\ UNCHANGED <<queue, processing, active, nEnq, started>>]_vars

C22_Witness ==
    /\ isClosed /\ justClosed
    /\ Len(hist) = 2
    /\ hist[1].res = "ok" /\ hist[2].res = "closed"
    /\ AllEntries(files) \cap Logged = {1}

\* the bytes handed to stream.write since the size counter was last set, by the
\* log() calls before call e
RECURSIVE WrittenSince(_, _)
WrittenSince(e, k) ==
    IF k = 0 THEN 0
    ELSE (IF hist[k].epoch = hist[e].epoch /\ hist[k].res # "closed"
          THEN hist[k].len ELSE 0) + WrittenSince(e, k - 1)

\* the size of the live file the constructor found
SizeAtConstruction == getFileSize(PreFiles(options.compress, options.pre), LivePath)

\* C23: in size mode a log() call enqueues a rotation task if and only if
\* currentFileSize + byteLength(entry) > maxFileSize, strictly, where
\* currentFileSize is the live file's size at construction, or 0 after the
\* last completed rotation, plus the bytes of every entry written since.
C23_RotationTriggerExact ==
    SizeMode =>
        /\ \A e \in Logged : hist[e].res # "closed" =>
              (hist[e].trig <=>
                  (IF hist[e].epoch = 0 THEN SizeAtConstruction ELSE 0)
                  + WrittenSince(e, e - 1) + hist[e].len > options.maxFileSize)
        /\ nEnq = Cardinality({e \in Logged : hist[e].trig})

C23_Witness ==
    /\ SizeMode /\ options.pre = 0 /\ Len(hist) = 3 /\ nRot = 1
    /\ hist[1].len = 1 /\ ~hist[1].trig /\ hist[1].epoch = 0
    /\ hist[2].len = 1 /\ hist[2].trig /\ hist[2].epoch = 0
    /\ hist[3].len = 1 /\ ~hist[3].trig /\ hist[3].epoch = 1

C23_WitnessAtConstruction ==
    /\ SizeMode /\ SizeAtConstruction = 1 /\ Len(hist) = 1
    /\ hist[1].len = 1 /\ hist[1].trig

\* C29: rotation and retention of a transport rename or delete only files of
\* its own log: the numbered files of another log in the same directory are
\* left as they were by every rotation, by the sweep at construction and by
\* manualCleanup().
C29_OtherLogsUntouched ==
    HybridMode =>
        \A p \in DOMAIN OtherLog(options.pre) :
            p \in DOMAIN files /\ files[p] = OtherLog(options.pre)[p]

\* C21: log() never throws to its caller, in any rotation mode: a failing
\* write, stream open or stream close, a failing formatter and a failing
\* rotation step are caught inside the transport and the call returns normally.
C21_LogNeverThrows ==
    \A e \in Logged : hist[e].res # "threw"

\* the transport.log calls of the last Logger call that threw
ThrowingCalls == {i \in 1..Len(dispatch.calls) : dispatch.calls[i].threw}

\* C26: the Logger's dispatch isolates transport failures: when the log() of a
\* registered transport throws, every registered transport is still called, once
\* each and in registration order, with the level, the message, the meta and one
\* and the same timestamp of the Logger call, and the Logger call does not throw.
C26_DispatchIsolatesFailures ==
    (dispatch.called /\ ThrowingCalls # {}) =>
        /\ ~dispatch.threw
        /\ Len(dispatch.calls) = Len(dispatch.registered)
        /\ \A i \in 1..Len(dispatch.calls) :
              LET a == LogArgs(dispatch.level, dispatch.arg, dispatch.meta)
              IN /\ dispatch.calls[i].transport = dispatch.registered[i]
                 /\ dispatch.calls[i].level = dispatch.level
                 /\ dispatch.calls[i].message = a.message
                 /\ dispatch.calls[i].meta = a.meta
                 /\ dispatch.calls[i].timestamp = dispatch.calls[1].timestamp

\* the log() of the first of three registered transports threw, and a transport
\* registered after a throwing one was called and returned normally
C26_Witness ==
    /\ dispatch.called
    /\ Len(dispatch.registered) = 3
    /\ 1 \in ThrowingCalls
    /\ \E i \in ThrowingCalls, j \in 1..Len(dispatch.calls) :
          i < j /\ ~dispatch.calls[j].threw

====
